---- MODULE Spec2Model ----
(***************************************************************************)
(* Trade-simulation engine of the backtester (src/backtest.py) together    *)
(* with the position sizer (src/position_sizing.py) and the exit policies  *)
(* of the two strategies (src/strategies/momentum.py, pullback.py).        *)
(*                                                                         *)
(* Arithmetic.  The code computes in floats; the model computes in exact   *)
(* rationals.  Bar prices are whole dollars; every amount the simulator    *)
(* derives (fills, stops in force, P&L, equity) is held as an integer      *)
(* number of 1/(SlipDen*SlipDen) dollars, so that a price that went        *)
(* through entry slippage, became a breakeven stop and then went through   *)
(* exit slippage is still exact.  A timestamp is the position of the bar   *)
(* in the series, so the series is strictly increasing in time.            *)
(***************************************************************************)
EXTENDS Integers, Sequences, FiniteSets, TLC

(* ---------------------------------------------------------------------- *)
(* Bounds of the model                                                     *)
(* ---------------------------------------------------------------------- *)
MaxBars == 3
\* slippage_pct is a multiple of 1 / SlipDen
SlipDen == 100

(* ---------------------------------------------------------------------- *)
(* Program constants                                                       *)
(* ---------------------------------------------------------------------- *)
\* config.MAX_POSITION_SIZE_PCT = 0.30 = MaxPositionPct / PctDen
MaxPositionPct == 30
\* config.MAX_RISK_PER_TRADE_PCT = 0.01 = MaxRiskPct / PctDen
MaxRiskPct == 1
PctDen == 100
\* config.MOMENTUM_ATR_STOP_MULT = config.PULLBACK_ATR_STOP_MULT = 2.0
AtrStopMult == 2
\* missing value of a price column (numpy.nan), outside every price domain
NaN == 0 - 1

isna(x) == x = NaN

\* config.MOMENTUM_TRAIL_R = 1.0 and config.PULLBACK_TRAIL_R = 1.5, doubled
MomentumTrailR2 == 2
PullbackTrailR2 == 3

\* dollars -> units of 1/(SlipDen*SlipDen) dollars
Scaled(x) == x * SlipDen * SlipDen

Max(a, b) == IF a >= b THEN a ELSE b
\* variant: the second argument is taken whatever the first is
MinTakesSecond(a, b) == b
Min(a, b) == IF a <= b THEN a ELSE b

(* ---------------------------------------------------------------------- *)
(* Input domains                                                           *)
(* ---------------------------------------------------------------------- *)
Bar(h, l, c, a, s, e, st, t) ==
    [high |-> h, low |-> l, close |-> c, atr_14 |-> a,
     signal |-> s, entry |-> e, stop |-> st, target |-> t]

\* The rows a series is drawn from: low <= close <= high on every row, and
\* the signal columns are NaN on rows without a signal (generate_signals
\* initialises them to NaN).
BarSet ==
    { Bar(11,  9, 10, 1, 1, 10, 8, 14),        \* entry signal, risk 2, target +2R
      Bar(11,  9, 10, 1, 1, 10, 8, NaN),       \* signal with a missing target
      Bar(11,  9, 10, 1, 1, 10, 11, 14),       \* signal with stop above entry
      Bar(11,  9, 10, 1, 0, NaN, NaN, NaN),    \* quiet bar
      Bar(14, 10, 13, 1, 0, NaN, NaN, NaN),    \* reaches the target only
      Bar(11,  8,  9, 1, 0, NaN, NaN, NaN),    \* reaches the stop only
      Bar(14,  8, 10, 1, 0, NaN, NaN, NaN),    \* reaches target and stop
      Bar(13, 12, 13, 1, 0, NaN, NaN, NaN),    \* rally of +1.5R, ATR 1
      Bar(13, 12, 13, NaN, 0, NaN, NaN, NaN) } \* rally of +1.5R, ATR missing

\* strategy objects: one without a check_exit attribute, the two built-in
\* ones, and an arbitrary duck-typed one
StrategySet == {"none", "momentum", "pullback", "custom"}
\* slippage_pct = slippage / SlipDen
SlippageSet == {0, 1}
\* commission per fill, dollars
CommissionSet == {0, 1}
\* initial capital, dollars
CapitalSet == {1000}
\* new_stop values an arbitrary check_exit may return, dollars
CustomStopSet == {7, 11}

VARIABLES
    df,               \* the annotated price series
    strategy,         \* which strategy object is passed in
    initial_capital,  \* Backtester.initial_capital (scaled)
    commission,       \* Backtester.commission (scaled)
    slippage,         \* Backtester.slippage_pct * SlipDen
    pc,               \* position of the run: "loop", "find_exit", "done"
    k,                \* position of the loop over the signal rows
    equity,           \* running equity (scaled)
    trades,           \* the ledger
    history,          \* history: per ledger row, what the run did for it
    open,             \* locals of the loop iteration that is inside _find_exit
    cur,              \* row _find_exit is looking at
    current_stop,     \* _find_exit's current_stop (scaled)
    examined,         \* history: what _find_exit saw on each row of this trade
    equity_curve,     \* result of _calculate_equity_curve
    result,           \* what run() returns: "pending", "none", "report"
    last,             \* history: the step taken last
    call              \* a call of one component on its own: arguments, result

vars == <<df, strategy, initial_capital, commission, slippage, pc, k, equity,
          trades, history, open, cur, current_stop, examined, equity_curve, result, last,
          call>>

(* ---------------------------------------------------------------------- *)
(* PositionSizer.calculate_shares (equity, prices: scaled)                 *)
(* ---------------------------------------------------------------------- *)
Rejected(reason) ==
    [shares |-> 0, position_value |-> 0, risk_dollars |-> 0,
     valid |-> FALSE, reason |-> reason]

\* variant: the equity check comes first
calculate_sharesEquityFirst(eq, entry_price, stop_price) ==
    IF eq <= 0 THEN Rejected("Equity must be positive")
    ELSE IF entry_price <= 0 THEN Rejected("Entry price must be positive")
    ELSE IF stop_price <= 0 THEN Rejected("Stop price must be positive")
    ELSE IF entry_price <= stop_price
        THEN Rejected("Stop price must be below entry price (long only)")
    ELSE
        LET risk_per_share == entry_price - stop_price
            \* int(equity * risk_pct / risk_per_share), operands positive
            shares_by_risk == (eq * MaxRiskPct) \div (PctDen * risk_per_share)
            shares_by_position_size ==
                (eq * MaxPositionPct) \div (PctDen * entry_price)
            shares == Min(shares_by_risk, shares_by_position_size)
            position_value == shares * entry_price
            risk_dollars == shares * risk_per_share
        IN  IF shares < 1 THEN Rejected("Position size rounds to 0 shares")
            \* position_pct > max_position_pct
            ELSE IF position_value * PctDen > MaxPositionPct * eq
                THEN Rejected("Position size exceeds max")
            \* actual_risk_pct > max_risk_pct
            ELSE IF risk_dollars * PctDen > MaxRiskPct * eq
                THEN Rejected("Risk exceeds max")
            ELSE [shares |-> shares, position_value |-> position_value,
                  risk_dollars |-> risk_dollars, valid |-> TRUE,
                  reason |-> "OK"]

\* variant: the result is built from shares_by_risk, not from the minimum
calculate_sharesSizedByRisk(eq, entry_price, stop_price) ==
    IF entry_price <= 0 THEN Rejected("Entry price must be positive")
    ELSE IF stop_price <= 0 THEN Rejected("Stop price must be positive")
    ELSE IF entry_price <= stop_price
        THEN Rejected("Stop price must be below entry price (long only)")
    ELSE IF eq <= 0 THEN Rejected("Equity must be positive")
    ELSE
        LET risk_per_share == entry_price - stop_price
            \* int(equity * risk_pct / risk_per_share), operands positive
            shares_by_risk == (eq * MaxRiskPct) \div (PctDen * risk_per_share)
            shares_by_position_size ==
                (eq * MaxPositionPct) \div (PctDen * entry_price)
            shares == Min(shares_by_risk, shares_by_position_size)
            position_value == shares * entry_price
            risk_dollars == shares * risk_per_share
        IN  IF shares < 1 THEN Rejected("Position size rounds to 0 shares")
            \* position_pct > max_position_pct
            ELSE IF position_value * PctDen > MaxPositionPct * eq
                THEN Rejected("Position size exceeds max")
            \* actual_risk_pct > max_risk_pct
            ELSE IF risk_dollars * PctDen > MaxRiskPct * eq
                THEN Rejected("Risk exceeds max")
            ELSE [shares |-> shares_by_risk,
                  position_value |-> shares_by_risk * entry_price,
                  risk_dollars |-> shares_by_risk * risk_per_share, valid |-> TRUE,
                  reason |-> "OK"]

calculate_shares(eq, entry_price, stop_price) ==
    IF entry_price <= 0 THEN Rejected("Entry price must be positive")
    ELSE IF stop_price <= 0 THEN Rejected("Stop price must be positive")
    ELSE IF entry_price <= stop_price
        THEN Rejected("Stop price must be below entry price (long only)")
    ELSE IF eq <= 0 THEN Rejected("Equity must be positive")
    ELSE
        LET risk_per_share == entry_price - stop_price
            \* int(equity * risk_pct / risk_per_share), operands positive
            shares_by_risk == (eq * MaxRiskPct) \div (PctDen * risk_per_share)
            shares_by_position_size ==
                (eq * MaxPositionPct) \div (PctDen * entry_price)
            shares == Min(shares_by_risk, shares_by_position_size)
            position_value == shares * entry_price
            risk_dollars == shares * risk_per_share
        IN  IF shares < 1 THEN Rejected("Position size rounds to 0 shares")
            \* position_pct > max_position_pct
            ELSE IF position_value * PctDen > MaxPositionPct * eq
                THEN Rejected("Position size exceeds max")
            \* actual_risk_pct > max_risk_pct
            ELSE IF risk_dollars * PctDen > MaxRiskPct * eq
                THEN Rejected("Risk exceeds max")
            ELSE [shares |-> shares, position_value |-> position_value,
                  risk_dollars |-> risk_dollars, valid |-> TRUE,
                  reason |-> "OK"]

(* ---------------------------------------------------------------------- *)
(* MomentumStrategy.check_exit / PullbackStrategy.check_exit               *)
(* ---------------------------------------------------------------------- *)
\* r_multiple >= trail2 / 2, where r_multiple = profit / risk if risk > 0
\* else 0 (trail2 > 0)
RAtLeast(profit, risk, trail2) == risk > 0 /\ 2 * profit >= trail2 * risk

\* variant: the two reason strings are swapped
check_exit_withReasonSwapped(trail2, entry_price, current_price, current_atr, original_stop) ==
    LET risk == entry_price - original_stop
        profit == current_price - entry_price
        breakeven == IF RAtLeast(profit, risk, 2) THEN entry_price
                     ELSE original_stop
        trailing == current_price - current_atr * AtrStopMult
        new_stop == IF RAtLeast(profit, risk, trail2)
                    THEN Max(breakeven, trailing) ELSE breakeven
        should_exit == current_price <= new_stop
    IN  [should_exit |-> should_exit, new_stop |-> new_stop,
         reason |-> IF should_exit THEN "Holding" ELSE "Stop hit"]

\* variant: the trailing stop sits at the current price, whatever the ATR
check_exit_withTrailAtPrice(trail2, entry_price, current_price, current_atr, original_stop) ==
    LET risk == entry_price - original_stop
        profit == current_price - entry_price
        breakeven == IF RAtLeast(profit, risk, 2) THEN entry_price
                     ELSE original_stop
        trailing == current_price
        new_stop == IF RAtLeast(profit, risk, trail2)
                    THEN Max(breakeven, trailing) ELSE breakeven
        should_exit == current_price <= new_stop
    IN  [should_exit |-> should_exit, new_stop |-> new_stop,
         reason |-> IF should_exit THEN "Stop hit" ELSE "Holding"]

check_exit_with(trail2, entry_price, current_price, current_atr, original_stop) ==
    LET risk == entry_price - original_stop
        profit == current_price - entry_price
        \* move to breakeven at +1R
        breakeven == IF RAtLeast(profit, risk, 2) THEN entry_price
                     ELSE original_stop
        \* trailing stop once the trail threshold is reached
        trailing == current_price - current_atr * AtrStopMult
        new_stop == IF RAtLeast(profit, risk, trail2)
                    THEN Max(breakeven, trailing) ELSE breakeven
        should_exit == current_price <= new_stop
    IN  [should_exit |-> should_exit, new_stop |-> new_stop,
         reason |-> IF should_exit THEN "Stop hit" ELSE "Holding"]

MomentumCheckExit(entry_price, current_price, current_atr, original_stop) ==
    check_exit_with(MomentumTrailR2, entry_price, current_price, current_atr,
                    original_stop)

PullbackCheckExit(entry_price, current_price, current_atr, original_stop) ==
    check_exit_with(PullbackTrailR2, entry_price, current_price, current_atr,
                    original_stop)

\* what strategy.check_exit may return; an arbitrary strategy object may
\* return anything
PolicyResults(entry_price, current_price, current_atr, original_stop) ==
    CASE strategy = "momentum" ->
           { MomentumCheckExit(entry_price, current_price, current_atr,
                               original_stop) }
      [] strategy = "pullback" ->
           { PullbackCheckExit(entry_price, current_price, current_atr,
                               original_stop) }
      [] strategy = "custom" ->
           [should_exit : BOOLEAN,
            new_stop : {Scaled(x) : x \in CustomStopSet},
            reason : {"custom"}]
      [] OTHER -> {}

\* hasattr(strategy, 'check_exit')
HasCheckExit == strategy # "none"

(* ---------------------------------------------------------------------- *)
(* Backtester._execute_trades, locals of one loop iteration                *)
(* ---------------------------------------------------------------------- *)
\* signals = df[df['signal'] == 1]: the rows with a signal, in series order
RECURSIVE SignalRows(_, _)
SignalRows(d, i) ==
    IF i > Len(d) THEN <<>>
    ELSE IF d[i].signal = 1 THEN <<i>> \o SignalRows(d, i + 1)
    ELSE SignalRows(d, i + 1)

signals == SignalRows(df, 1)

\* the row of the signal the loop is at
idx == signals[k]

\* entry_price_actual = entry_price * (1 + slippage_pct)
EntryPriceActual(entry_price) ==
    (Scaled(entry_price) * (SlipDen + slippage)) \div SlipDen

\* variant: exit slippage applied with the sign of the entry side
ExitPriceActualBuySide(exit_price) == (exit_price * (SlipDen + slippage)) \div SlipDen

\* exit_price_actual = exit_price * (1 - slippage_pct)
ExitPriceActual(exit_price) == (exit_price * (SlipDen - slippage)) \div SlipDen

SignalIsNa(row) == isna(row.entry) \/ isna(row.stop) \/ isna(row.target)

\* sizer = PositionSizer(equity); sizing = sizer.calculate_shares(...)
Sizing(row) ==
    calculate_shares(equity, EntryPriceActual(row.entry), Scaled(row.stop))

NoTrade == [entry_idx |-> 0]

\* no component is called on its own
NoCall == [op |-> "none"]

\* variant: the entry row itself is looked at (iloc[1:] left out)
FirstExitRowIncludesEntry(entry_idx) == entry_idx

\* future_data = df.loc[entry_idx:].iloc[1:]: the first row _find_exit looks at
FirstExitRow(entry_idx) == entry_idx + 1

\* variant: the stop is tested before the target
BarOutcomeStopFirst(bar, target_price, stop) ==
    IF Scaled(bar.low) <= stop THEN "stop"
    ELSE IF Scaled(bar.high) >= target_price THEN "target"
    ELSE "policy"

\* the order of the tests _find_exit makes on one row
BarOutcome(bar, target_price, stop) ==
    IF Scaled(bar.high) >= target_price THEN "target"
    ELSE IF Scaled(bar.low) <= stop THEN "stop"
    ELSE "policy"

\* variant: the policy's stop replaces the stop in force
TrailStopReplace(stop, new_stop) == new_stop

\* current_stop = max(current_stop, new_stop)
TrailStop(stop, new_stop) == Max(stop, new_stop)

\* current_atr = bar['atr_14'] if present and not NaN else 0
CurrentAtr(bar) == IF isna(bar.atr_14) THEN 0 ELSE Scaled(bar.atr_14)

\* gross_pnl = shares * (exit_price_actual - entry_price_actual)
GrossPnl(shares, exit_price_actual, entry_price_actual) ==
    shares * (exit_price_actual - entry_price_actual)

\* variant: the exit commission is left out
CostsEntryOnly(entry_commission, exit_commission) == entry_commission

\* costs = entry_commission + exit_commission
Costs(entry_commission, exit_commission) == entry_commission + exit_commission

\* variant: the row records the stop in force at the exit
RecordedStopInForce(stop_price, stop_in_force) == stop_in_force

\* the stop the ledger row records
RecordedStop(stop_price, stop_in_force) == stop_price

\* the dict appended to trades (r_multiple, return_pct and position_value,
\* which no later step reads back, are left out)
TradeRow(o, exit_idx, exit_price, exit_reason) ==
    LET exit_price_actual == ExitPriceActual(exit_price)
        gross_pnl == GrossPnl(o.shares, exit_price_actual, o.entry_price)
        costs == Costs(commission, commission)
        net_pnl == gross_pnl - costs
    IN  [entry_date |-> o.entry_idx,
         exit_date |-> exit_idx,
         entry_price |-> o.entry_price,
         exit_price |-> exit_price_actual,
         shares |-> o.shares,
         stop_price |-> RecordedStop(o.stop_price, current_stop),
         target_price |-> o.target_price,
         gross_pnl |-> gross_pnl,
         commission |-> costs,
         net_pnl |-> net_pnl,
         exit_reason |-> exit_reason,
         equity_after |-> equity + net_pnl]

(* ---------------------------------------------------------------------- *)
(* Backtester._calculate_equity_curve                                      *)
(* ---------------------------------------------------------------------- *)
\* variant: every point after the first holds the trade's own net P&L on
\* top of initial capital instead of the running equity
EquityPointsPerTrade(t) ==
    IF t = <<>> THEN << [date |-> 0, equity |-> initial_capital] >>
    ELSE << [date |-> t[1].entry_date, equity |-> initial_capital] >>
         \o [i \in 1..Len(t) |->
                [date |-> t[i].exit_date,
                 equity |-> initial_capital + t[i].net_pnl]]

\* a point of the curve: index (timestamp) and value; the curve of an empty
\* ledger has the default index 0
EquityPoints(t) ==
    IF t = <<>> THEN << [date |-> 0, equity |-> initial_capital] >>
    ELSE << [date |-> t[1].entry_date, equity |-> initial_capital] >>
         \o [i \in 1..Len(t) |->
                [date |-> t[i].exit_date, equity |-> t[i].equity_after]]

(* ---------------------------------------------------------------------- *)
(* _calculate_metrics: a quotient is kept as numerator and denominator     *)
(* ---------------------------------------------------------------------- *)
Ratio(n, d) == [num |-> n, den |-> d]
\* the literal 0 of a conditional expression
Zero == Ratio(0, 1)
\* np.inf
Infinity == Ratio(1, 0)

\* equity_curve.cummax() at position n
RECURSIVE cummax(_, _)
cummax(curve, n) ==
    IF n = 1 THEN curve[1].equity
    ELSE Max(cummax(curve, n - 1), curve[n].equity)

\* drawdown = running_max - equity_curve, at position n
drawdown(curve, n) == cummax(curve, n) - curve[n].equity

\* drawdown.max()
RECURSIVE max_drawdown_upto(_, _)
max_drawdown_upto(curve, n) ==
    IF n = 1 THEN drawdown(curve, 1)
    ELSE Max(max_drawdown_upto(curve, n - 1), drawdown(curve, n))

max_drawdown(curve) == max_drawdown_upto(curve, Len(curve))

\* drawdown.idxmax(): the index label of the first position of the maximum
idxmax(curve) ==
    LET first == CHOOSE n \in 1..Len(curve) :
                    /\ drawdown(curve, n) = max_drawdown(curve)
                    /\ \A m \in 1..(n - 1) : drawdown(curve, m) # max_drawdown(curve)
    IN  curve[first].date

\* the positions of the curve that carry the label, in order
RECURSIVE PositionsOf(_, _, _)
PositionsOf(curve, label, n) ==
    IF n = 0 THEN <<>>
    ELSE PositionsOf(curve, label, n - 1)
         \o (IF curve[n].date = label THEN <<n>> ELSE <<>>)

\* max_drawdown / running_max[drawdown.idxmax()]: indexing by label gives a
\* number when one position carries the label and a Series of the values at
\* every such position otherwise; the quotient has the same shape
max_drawdown_pct(curve) ==
    IF max_drawdown(curve) > 0
    THEN LET at == PositionsOf(curve, idxmax(curve), Len(curve))
         IN  [scalar |-> Len(at) = 1,
              values |-> [i \in 1..Len(at) |->
                            Ratio(max_drawdown(curve), cummax(curve, at[i]))]]
    ELSE [scalar |-> TRUE, values |-> << Zero >>]

\* len(trades[trades['net_pnl'] > 0]) and len(trades[trades['net_pnl'] < 0])
RECURSIVE CountPnl(_, _, _)
CountPnl(t, sign, n) ==
    IF n = 0 THEN 0
    ELSE CountPnl(t, sign, n - 1)
         + (IF t[n].net_pnl * sign > 0 THEN 1 ELSE 0)

\* trades[trades['net_pnl'] * sign > 0]['net_pnl'].sum()
RECURSIVE SumPnl(_, _, _)
SumPnl(t, sign, n) ==
    IF n = 0 THEN 0
    ELSE SumPnl(t, sign, n - 1)
         + (IF t[n].net_pnl * sign > 0 THEN t[n].net_pnl ELSE 0)

abs(x) == IF x < 0 THEN 0 - x ELSE x

\* sum((trades['exit_date'] - trades['entry_date']).dt.days)
RECURSIVE TradeDays(_, _)
TradeDays(t, n) ==
    IF n = 0 THEN 0
    ELSE TradeDays(t, n - 1) + (t[n].exit_date - t[n].entry_date)

\* lines 378-455 for a ledger with at least one row; total_days is
\* (end_date - start_date).days, and years > 0 exactly when total_days > 0;
\* the power of the CAGR is kept as its base
calculate_metrics(t, curve, total_days) ==
    LET total_trades == Len(t)
        winning_trades == CountPnl(t, 1, Len(t))
        final_equity == curve[Len(curve)].equity
        gross_profit == SumPnl(t, 1, Len(t))
        gross_loss == abs(SumPnl(t, 0 - 1, Len(t)))
    IN  [op |-> "_calculate_metrics",
         total_trades |-> total_trades,
         winning_trades |-> winning_trades,
         losing_trades |-> CountPnl(t, 0 - 1, Len(t)),
         win_rate |-> IF total_trades > 0
                      THEN Ratio(winning_trades, total_trades) ELSE Zero,
         total_days |-> total_days,
         cagr |-> IF total_days > 0
                  THEN [power |-> TRUE, base |-> Ratio(final_equity, initial_capital)]
                  ELSE [power |-> FALSE, base |-> Zero],
         max_drawdown |-> max_drawdown(curve),
         max_drawdown_pct |-> max_drawdown_pct(curve),
         profit_factor |-> IF gross_loss > 0
                           THEN Ratio(gross_profit, gross_loss) ELSE Infinity,
         avg_exposure |-> IF total_days > 0
                          THEN Ratio(TradeDays(t, Len(t)), total_days) ELSE Zero]

\* (end_date - start_date).days of the run's arguments: an end before the
\* start, a window inside one day, and one longer than the series (rows are
\* a day apart)
TotalDaysSet == {0 - 1, 0, MaxBars + 2}

(* ---------------------------------------------------------------------- *)
(* Initial state: a Backtester and the arguments of one run                *)
(* ---------------------------------------------------------------------- *)
SeriesSet == UNION { [1..n -> BarSet] : n \in 0..MaxBars }

Init ==
    /\ df \in SeriesSet
    /\ strategy \in StrategySet
    /\ initial_capital \in {Scaled(c) : c \in CapitalSet}
    /\ commission \in {Scaled(c) : c \in CommissionSet}
    /\ slippage \in SlippageSet
    /\ pc = "loop"
    /\ k = 1
    /\ equity = initial_capital
    /\ trades = <<>>
    /\ history = <<>>
    /\ open = NoTrade
    /\ cur = 0
    /\ current_stop = 0
    /\ examined = <<>>
    /\ equity_curve = <<>>
    /\ result = "pending"
    /\ last = "init"
    /\ call = NoCall

config_vars == <<df, strategy, initial_capital, commission, slippage>>
exit_vars == <<open, cur, current_stop, examined>>
out_vars == <<equity_curve, result>>

(* ---------------------------------------------------------------------- *)
(* Backtester._execute_trades: the loop over the signal rows               *)
(* ---------------------------------------------------------------------- *)
AtSignal == pc = "loop" /\ k <= Len(signals)

\* variant: a missing entry, stop or target ends the loop (break for continue)
SkipNaSignalBreak ==
    /\ AtSignal
    /\ SignalIsNa(df[idx])
    /\ k' = Len(signals) + 1
    /\ last' = "skip_na"
    /\ UNCHANGED <<call, config_vars, pc, equity, trades, history, exit_vars, out_vars>>

\* lines 203-204: a missing entry, stop or target skips the signal
SkipNaSignal ==
    /\ AtSignal
    /\ SignalIsNa(df[idx])
    /\ k' = k + 1
    /\ last' = "skip_na"
    /\ UNCHANGED <<call, config_vars, pc, equity, trades, history, exit_vars, out_vars>>

\* lines 213-214: a sizing that is not valid skips the signal
SkipInvalidSizing ==
    /\ AtSignal
    /\ ~SignalIsNa(df[idx])
    /\ ~Sizing(df[idx]).valid
    /\ k' = k + 1
    /\ last' = "skip_sizing"
    /\ UNCHANGED <<call, config_vars, pc, equity, trades, history, exit_vars, out_vars>>

\* lines 206-230 and 299-302: the trade is sized and _find_exit is entered
OpenTrade ==
    /\ AtSignal
    /\ ~SignalIsNa(df[idx])
    /\ Sizing(df[idx]).valid
    /\ open' = [entry_idx |-> idx,
                entry_price |-> EntryPriceActual(df[idx].entry),
                stop_price |-> Scaled(df[idx].stop),
                target_price |-> Scaled(df[idx].target),
                shares |-> Sizing(df[idx]).shares,
                sized_equity |-> equity]
    /\ cur' = FirstExitRow(idx)
    /\ current_stop' = Scaled(df[idx].stop)
    /\ examined' = <<>>
    /\ pc' = "find_exit"
    /\ last' = "open"
    /\ UNCHANGED <<call, config_vars, k, equity, trades, history, out_vars>>

(* ---------------------------------------------------------------------- *)
(* Backtester._find_exit, one row at a time, and the rest of the loop body *)
(* once it returns                                                         *)
(* ---------------------------------------------------------------------- *)
AtBar == pc = "find_exit" /\ cur <= Len(df)

Seen(should_exit) == [row |-> cur, stop |-> current_stop, should_exit |-> should_exit]

\* lines 235-273: the trade is closed, equity updated, the row appended
Close(exit_price, exit_reason, should_exit) ==
    LET row == TradeRow(open, cur, exit_price, exit_reason)
    IN  /\ trades' = Append(trades, row)
        /\ equity' = equity + row.net_pnl
        /\ history' = Append(history,
                             [sized_equity |-> open.sized_equity,
                              raw_exit |-> exit_price,
                              examined |-> Append(examined, Seen(should_exit))])
        /\ open' = NoTrade
        /\ cur' = 0
        /\ current_stop' = 0
        /\ examined' = <<>>
        /\ pc' = "loop"
        /\ k' = k + 1
        /\ UNCHANGED <<call, config_vars, out_vars>>

\* lines 309-310
ExitTarget ==
    /\ AtBar
    /\ BarOutcome(df[cur], open.target_price, current_stop) = "target"
    /\ Close(open.target_price, "target", FALSE)
    /\ last' = "exit_target"

\* lines 313-314
ExitStop ==
    /\ AtBar
    /\ BarOutcome(df[cur], open.target_price, current_stop) = "stop"
    /\ Close(current_stop, "stop", FALSE)
    /\ last' = "exit_stop"

Hold(new_stop) ==
    /\ current_stop' = new_stop
    /\ examined' = Append(examined, Seen(FALSE))
    /\ cur' = cur + 1
    /\ UNCHANGED <<call, config_vars, pc, k, equity, trades, history, open, out_vars>>

\* line 317 false: the strategy has no check_exit, next row
HoldNoPolicy ==
    /\ AtBar
    /\ BarOutcome(df[cur], open.target_price, current_stop) = "policy"
    /\ ~HasCheckExit
    /\ Hold(current_stop)
    /\ last' = "hold"

\* lines 318-324, should_exit true: exit at the close of the row
PolicyExit ==
    /\ AtBar
    /\ BarOutcome(df[cur], open.target_price, current_stop) = "policy"
    /\ HasCheckExit
    /\ \E r \in PolicyResults(open.entry_price, Scaled(df[cur].close),
                              CurrentAtr(df[cur]), open.stop_price) :
          /\ r.should_exit
          /\ Close(Scaled(df[cur].close), r.reason, TRUE)
    /\ last' = "exit_policy"

\* lines 318-321, should_exit false: the stop trails, next row
PolicyHold ==
    /\ AtBar
    /\ BarOutcome(df[cur], open.target_price, current_stop) = "policy"
    /\ HasCheckExit
    /\ \E r \in PolicyResults(open.entry_price, Scaled(df[cur].close),
                              CurrentAtr(df[cur]), open.stop_price) :
          /\ ~r.should_exit
          /\ Hold(TrailStop(current_stop, r.new_stop))
    /\ last' = "hold_policy"

\* variant: a trade still open at the end of the data is closed at the last
\* close
DropTradeForceClose ==
    /\ pc = "find_exit"
    /\ cur > Len(df)
    /\ LET row == TradeRow(open, Len(df), Scaled(df[Len(df)].close), "end_of_data")
       IN  /\ trades' = Append(trades, row)
           /\ equity' = equity + row.net_pnl
           /\ history' = Append(history,
                                [sized_equity |-> open.sized_equity,
                                 raw_exit |-> Scaled(df[Len(df)].close),
                                 examined |-> examined])
    /\ open' = NoTrade
    /\ cur' = 0
    /\ current_stop' = 0
    /\ examined' = <<>>
    /\ pc' = "loop"
    /\ k' = k + 1
    /\ last' = "drop"
    /\ UNCHANGED <<call, config_vars, out_vars>>

\* lines 326-327 and 232-233: no exit in the data, the signal is passed over
DropTrade ==
    /\ pc = "find_exit"
    /\ cur > Len(df)
    /\ open' = NoTrade
    /\ cur' = 0
    /\ current_stop' = 0
    /\ examined' = <<>>
    /\ pc' = "loop"
    /\ k' = k + 1
    /\ last' = "drop"
    /\ UNCHANGED <<call, config_vars, equity, trades, history, out_vars>>

(* ---------------------------------------------------------------------- *)
(* Backtester.run, after _execute_trades returned                          *)
(* ---------------------------------------------------------------------- *)
\* lines 147-149: no data for the symbol, run returns None
NoData ==
    /\ pc = "loop"
    /\ df = <<>>
    /\ result' = "none"
    /\ pc' = "done"
    /\ last' = "no_data"
    /\ UNCHANGED <<call, config_vars, k, equity, trades, history, exit_vars, equity_curve>>

\* lines 162-164: no trades, run returns None
FinishNoTrades ==
    /\ pc = "loop"
    /\ df # <<>>
    /\ k > Len(signals)
    /\ trades = <<>>
    /\ result' = "none"
    /\ pc' = "done"
    /\ last' = "finish_none"
    /\ UNCHANGED <<call, config_vars, k, equity, trades, history, exit_vars, equity_curve>>

\* lines 166-180: the equity curve is built, the metrics are calculated and
\* the report is returned
FinishReport ==
    /\ pc = "loop"
    /\ k > Len(signals)
    /\ trades # <<>>
    /\ equity_curve' = EquityPoints(trades)
    /\ \E total_days \in TotalDaysSet :
          call' = calculate_metrics(trades, EquityPoints(trades), total_days)
    /\ result' = "report"
    /\ pc' = "done"
    /\ last' = "finish_report"
    /\ UNCHANGED <<config_vars, k, equity, trades, history, exit_vars>>

Next ==
    \/ NoData
    \/ SkipNaSignal
    \/ SkipInvalidSizing
    \/ OpenTrade
    \/ ExitTarget
    \/ ExitStop
    \/ HoldNoPolicy
    \/ PolicyExit
    \/ PolicyHold
    \/ DropTrade
    \/ FinishNoTrades
    \/ FinishReport

Spec == Init /\ [][Next]_vars

(* ---------------------------------------------------------------------- *)
(* Runs of a Backtester constructed with arguments outside the documented  *)
(* ranges: __init__ stores whatever it is given                            *)
(* ---------------------------------------------------------------------- *)
BadConfig == initial_capital <= 0 \/ commission < 0 \/ slippage < 0

InitBadConfig ==
    /\ df \in SeriesSet
    /\ strategy \in {"none", "momentum"}
    /\ initial_capital \in {Scaled(c) : c \in CapitalSet \cup {0}}
    /\ commission \in {Scaled(c) : c \in {0 - 2, 1}}
    /\ slippage \in {0 - 1, 0}
    /\ BadConfig
    /\ pc = "loop"
    /\ k = 1
    /\ equity = initial_capital
    /\ trades = <<>>
    /\ history = <<>>
    /\ open = NoTrade
    /\ cur = 0
    /\ current_stop = 0
    /\ examined = <<>>
    /\ equity_curve = <<>>
    /\ result = "pending"
    /\ last = "init"
    /\ call = NoCall

SpecBadConfig == InitBadConfig /\ [][Next]_vars

(* ---------------------------------------------------------------------- *)
(* PositionSizer(equity).calculate_shares(entry_price, stop_price) called  *)
(* on its own, amounts in dollars                                          *)
(* ---------------------------------------------------------------------- *)
SizerEquitySet == {0 - 5, 0, 100, 1000, 25000}
SizerEntrySet == {0 - 5, 0, 2, 50, 150, 1000}
SizerStopSet == {0 - 5, 0, 1, 55, 145, 995}

NoResult == [done |-> FALSE]

\* the simulator is not running
SimulatorIdle ==
    /\ df = <<>>
    /\ strategy = "none"
    /\ initial_capital = 0
    /\ commission = 0
    /\ slippage = 0
    /\ pc = "idle"
    /\ k = 1
    /\ equity = 0
    /\ trades = <<>>
    /\ history = <<>>
    /\ open = NoTrade
    /\ cur = 0
    /\ current_stop = 0
    /\ examined = <<>>
    /\ equity_curve = <<>>
    /\ result = "pending"
    /\ last = "init"

sim_vars == <<df, strategy, initial_capital, commission, slippage, pc, k, equity,
              trades, history, open, cur, current_stop, examined, equity_curve,
              result, last>>

InitSizer ==
    /\ SimulatorIdle
    /\ call \in [op : {"calculate_shares"}, equity : SizerEquitySet,
                 entry_price : SizerEntrySet, stop_price : SizerStopSet,
                 result : {NoResult}]

CalculateShares ==
    /\ call.op = "calculate_shares"
    /\ call.result = NoResult
    /\ call' = [call EXCEPT !.result =
                    calculate_shares(call.equity, call.entry_price, call.stop_price)]
    /\ UNCHANGED sim_vars

NextSizer == CalculateShares

SpecSizer == InitSizer /\ [][NextSizer]_vars

(* ---------------------------------------------------------------------- *)
(* RiskManager(equity).check_pre_trade called on its own, amounts in       *)
(* dollars; a reason is modelled by the name of the check that wrote it    *)
(* ---------------------------------------------------------------------- *)
\* config.MAX_POSITIONS
MaxPositions == 2
\* config.MIN_STOCK_PRICE
MinStockPrice == 2
\* config.MIN_AVG_DOLLAR_VOLUME
MinAvgDollarVolume == 1000000
\* config.LEVERAGE_ALLOWED
LeverageAllowed == FALSE
\* equity * 1.01 = equity * LeverageMarginPct / PctDen
LeverageMarginPct == 101

\* any(p['symbol'] == symbol for p in current_positions)
HasSymbol(symbol, current_positions) ==
    \E n \in 1..Len(current_positions) : current_positions[n].symbol = symbol

\* p.get('market_value', 0)
MarketValue(p) == IF "market_value" \in DOMAIN p THEN p.market_value ELSE 0

\* sum(p.get('market_value', 0) for p in current_positions)
RECURSIVE TotalMarketValue(_, _)
TotalMarketValue(current_positions, n) ==
    IF n = 0 THEN 0
    ELSE TotalMarketValue(current_positions, n - 1) + MarketValue(current_positions[n])

\* liquidity_check: None, or a dict; 'if liquidity_check' is false for None
\* and for the empty dict
NoLiquidityCheck == [is_none |-> TRUE]
EmptyDict == <<>>
Truthy(liquidity_check) ==
    "is_none" \notin DOMAIN liquidity_check /\ DOMAIN liquidity_check # {}
\* liquidity_check.get('avg_dollar_volume', 0)
AvgDollarVolume(liquidity_check) ==
    IF "avg_dollar_volume" \in DOMAIN liquidity_check
    THEN liquidity_check.avg_dollar_volume ELSE 0

\* variant: the position count is enforced for a held symbol too
CheckMaxPositionsNoExemption(symbol, current_positions) ==
    IF Len(current_positions) >= MaxPositions THEN <<"max_positions">> ELSE <<>>

\* Check 1: maximum positions, unless the symbol is already held
CheckMaxPositions(symbol, current_positions) ==
    IF Len(current_positions) >= MaxPositions /\ ~HasSymbol(symbol, current_positions)
    THEN <<"max_positions">> ELSE <<>>

\* variant: a position exactly at the cap is rejected
CheckPositionSizeAtLimit(q, position_value) ==
    IF position_value * PctDen >= MaxPositionPct * q
    THEN <<"position_size">> ELSE <<>>

\* Check 2: position_value / equity > max_position_pct
CheckPositionSize(q, position_value) ==
    IF position_value * PctDen > MaxPositionPct * q
    THEN <<"position_size">> ELSE <<>>

\* Check 3: risk_dollars / equity > max_risk_pct
CheckRisk(q, risk_dollars) ==
    IF risk_dollars * PctDen > MaxRiskPct * q THEN <<"risk">> ELSE <<>>

\* Check 4: minimum price
CheckMinPrice(entry_price) ==
    IF entry_price < MinStockPrice THEN <<"min_price">> ELSE <<>>

\* Check 5: liquidity, only when liquidity information is passed
CheckLiquidity(liquidity_check) ==
    IF Truthy(liquidity_check) /\ AvgDollarVolume(liquidity_check) < MinAvgDollarVolume
    THEN <<"liquidity">> ELSE <<>>

\* Check 7: total exposure against equity when leverage is not allowed
CheckLeverage(q, position_value, current_positions) ==
    IF /\ ~LeverageAllowed
       /\ (TotalMarketValue(current_positions, Len(current_positions)) + position_value)
            * PctDen > q * LeverageMarginPct
    THEN <<"leverage">> ELSE <<>>

\* variant: a held symbol is let through when the position count is at its cap
CheckDuplicateBelowCap(symbol, current_positions) ==
    IF HasSymbol(symbol, current_positions) /\ Len(current_positions) < MaxPositions
    THEN <<"duplicate">> ELSE <<>>

\* Check 8: duplicate position
CheckDuplicate(symbol, current_positions) ==
    IF HasSymbol(symbol, current_positions) THEN <<"duplicate">> ELSE <<>>

\* variant: the checks stop at the first failure
FailedChecksFirstOnly(q, symbol, entry_price, position_value, risk_dollars, current_positions, liquidity_check) ==
    IF CheckMaxPositions(symbol, current_positions) # <<>>
        THEN CheckMaxPositions(symbol, current_positions)
    ELSE IF CheckPositionSize(q, position_value) # <<>>
        THEN CheckPositionSize(q, position_value)
    ELSE IF CheckRisk(q, risk_dollars) # <<>> THEN CheckRisk(q, risk_dollars)
    ELSE IF CheckMinPrice(entry_price) # <<>> THEN CheckMinPrice(entry_price)
    ELSE IF CheckLiquidity(liquidity_check) # <<>>
        THEN CheckLiquidity(liquidity_check)
    ELSE IF CheckLeverage(q, position_value, current_positions) # <<>>
        THEN CheckLeverage(q, position_value, current_positions)
    ELSE CheckDuplicate(symbol, current_positions)

\* the reasons appended by the checks, in the order the checks run
FailedChecks(q, symbol, entry_price, position_value, risk_dollars, current_positions, liquidity_check) ==
    CheckMaxPositions(symbol, current_positions)
    \o CheckPositionSize(q, position_value)
    \o CheckRisk(q, risk_dollars)
    \o CheckMinPrice(entry_price)
    \o CheckLiquidity(liquidity_check)
    \o CheckLeverage(q, position_value, current_positions)
    \o CheckDuplicate(symbol, current_positions)

\* approved is cleared by every append; the affirmative message is appended
\* when it is still set
check_pre_trade(q, symbol, entry_price, position_value, risk_dollars, current_positions, liquidity_check) ==
    LET failed == FailedChecks(q, symbol, entry_price, position_value,
                               risk_dollars, current_positions, liquidity_check)
        approved == failed = <<>>
    IN  [approved |-> approved,
         reasons |-> IF approved THEN <<"All risk checks passed">> ELSE failed]

RiskEquitySet == {25000}
RiskSymbolSet == {"AAPL", "PENNY"}
RiskEntrySet == {1, 2, 150}
RiskPositionValueSet == {3000, 7500, 10000}
RiskDollarsSet == {250, 500}
HeldSet == { [symbol |-> "AAPL", market_value |-> 8000],
             [symbol |-> "MSFT", market_value |-> 16000],
             [symbol |-> "GOOGL"] }
\* lists of open positions, one per symbol at most
HeldListSet ==
    { l \in UNION { [1..n -> HeldSet] : n \in 0..Cardinality(HeldSet) } :
        \A m, n \in 1..Len(l) : m # n => l[m].symbol # l[n].symbol }
LiquiditySet == { NoLiquidityCheck,
                  EmptyDict,
                  [source |-> "screen"],
                  [avg_dollar_volume |-> 500000],
                  [avg_dollar_volume |-> 1000000] }

InitRisk ==
    /\ SimulatorIdle
    /\ call \in [op : {"check_pre_trade"}, equity : RiskEquitySet,
                 symbol : RiskSymbolSet, entry_price : RiskEntrySet,
                 position_value : RiskPositionValueSet,
                 risk_dollars : RiskDollarsSet,
                 current_positions : HeldListSet,
                 liquidity_check : LiquiditySet,
                 result : {NoResult}]

CheckPreTrade ==
    /\ call.op = "check_pre_trade"
    /\ call.result = NoResult
    /\ call' = [call EXCEPT !.result =
                    check_pre_trade(call.equity, call.symbol, call.entry_price,
                                    call.position_value, call.risk_dollars,
                                    call.current_positions, call.liquidity_check)]
    /\ UNCHANGED sim_vars

NextRisk == CheckPreTrade

SpecRisk == InitRisk /\ [][NextRisk]_vars

(* ---------------------------------------------------------------------- *)
(* runner.execute_trade: broker, account, strategy, data, scan, sizer,     *)
(* risk gate, order, journal.  The account, the market data, the scan and  *)
(* the order API are the environment.                                      *)
(* ---------------------------------------------------------------------- *)
\* config.TRADING_MODE
TradingMode == "long_only"
\* config.SHORTING_ALLOWED
ShortingAllowed == FALSE

\* variant: the CLI confirmation is tested before the environment flag
BrokerInitConfirmFirst(paper, cli_confirm, allow_live_trading) ==
    IF ~paper /\ ~cli_confirm
        THEN [raised |-> TRUE, error |-> "CLI confirmation", client |-> FALSE]
    ELSE IF ~paper /\ ~allow_live_trading
        THEN [raised |-> TRUE, error |-> "ALLOW_LIVE_TRADING", client |-> FALSE]
    ELSE [raised |-> FALSE, error |-> "", client |-> TRUE]

\* Broker.__init__: raised is LiveTradingError, error the flag its message
\* names, client whether TradingClient was constructed
BrokerInit(paper, cli_confirm, allow_live_trading) ==
    IF ~paper /\ ~allow_live_trading
        THEN [raised |-> TRUE, error |-> "ALLOW_LIVE_TRADING", client |-> FALSE]
    ELSE IF ~paper /\ ~cli_confirm
        THEN [raised |-> TRUE, error |-> "CLI confirmation", client |-> FALSE]
    ELSE [raised |-> FALSE, error |-> "", client |-> TRUE]

NoOrder == [order_id |-> "None"]

\* Broker.place_order: submitted tells whether client.submit_order was
\* called; has_position is what get_positions shows for the symbol,
\* has_limit_price whether a limit price was passed, api_ok whether the
\* API accepts the order
place_order(side, qty, order_type, has_limit_price, has_position, api_ok) ==
    IF qty <= 0 THEN [submitted |-> FALSE, order |-> NoOrder]
    ELSE IF /\ (TradingMode # "long_only" \/ side # "buy")
            /\ ~ShortingAllowed /\ side = "sell"
            /\ ~has_position
        THEN [submitted |-> FALSE, order |-> NoOrder]
    ELSE IF order_type = "limit" /\ ~has_limit_price
        THEN [submitted |-> FALSE, order |-> NoOrder]
    ELSE IF order_type \notin {"market", "limit"}
        THEN [submitted |-> FALSE, order |-> NoOrder]
    ELSE [submitted |-> TRUE,
          order |-> IF api_ok THEN [order_id |-> "id", qty |-> qty] ELSE NoOrder]

NoSetup == [setup |-> "None"]
SetupSet == { [setup |-> "momentum_breakout", entry |-> 150, stop |-> 145, target |-> 160],
              [setup |-> "pullback", entry |-> 1000, stop |-> 995, target |-> 1010] }
AccountEquitySet == {0, 100, 25000}
StrategyNameSet == {"momentum", "pullback", "other"}

InitRunner ==
    /\ SimulatorIdle
    /\ call \in [op : {"execute_trade"}, symbol : {"AAPL"},
                 strategy_name : StrategyNameSet,
                 paper : BOOLEAN, cli_confirm : BOOLEAN, dry_run : BOOLEAN,
                 allow_live_trading : BOOLEAN,
                 pc : {"broker"}, log : {<<>>}, broker : {NoResult},
                 equity : {0}, setup : {NoSetup}, sizing : {NoResult},
                 risk : {NoResult}, order : {NoOrder}, journal : {<<>>}]

Running(step) == call.op = "execute_trade" /\ call.pc = step

\* broker = Broker(paper=paper, cli_confirm=cli_confirm)
ConstructBroker ==
    /\ Running("broker")
    /\ LET b == BrokerInit(call.paper, call.cli_confirm, call.allow_live_trading)
       IN  call' = [call EXCEPT !.broker = b,
                                !.log = Append(@, "broker"),
                                !.pc = IF b.raised THEN "returned" ELSE "account"]
    /\ UNCHANGED sim_vars

\* account = broker.get_account(); equity = account.get('equity', 0)
GetAccount ==
    /\ Running("account")
    /\ \E q \in AccountEquitySet :
          call' = [call EXCEPT !.equity = q,
                               !.log = Append(@, "account"),
                               !.pc = IF q <= 0 THEN "returned" ELSE "strategy"]
    /\ UNCHANGED sim_vars

PickStrategy ==
    /\ Running("strategy")
    /\ call' = [call EXCEPT !.log = Append(@, "strategy"),
                            !.pc = IF call.strategy_name \in {"momentum", "pullback"}
                                   THEN "data" ELSE "returned"]
    /\ UNCHANGED sim_vars

\* data = client.get_ohlcv(...); symbol not in data returns
FetchData ==
    /\ Running("data")
    /\ \E has_data \in BOOLEAN :
          call' = [call EXCEPT !.log = Append(@, "data"),
                               !.pc = IF has_data THEN "scan" ELSE "returned"]
    /\ UNCHANGED sim_vars

\* setup = strategy.scan(symbol, df)
Scan ==
    /\ Running("scan")
    /\ \E found \in SetupSet \cup {NoSetup} :
          call' = [call EXCEPT !.setup = found,
                               !.log = Append(@, "scan"),
                               !.pc = IF found = NoSetup THEN "returned" ELSE "size"]
    /\ UNCHANGED sim_vars

SizePosition ==
    /\ Running("size")
    /\ LET sizing == calculate_shares(call.equity, call.setup.entry, call.setup.stop)
       IN  call' = [call EXCEPT !.sizing = sizing,
                                !.log = Append(@, "size"),
                                !.pc = IF sizing.valid THEN "risk" ELSE "returned"]
    /\ UNCHANGED sim_vars

\* variant: the trade goes on whatever the risk manager answered
RiskGateIgnored ==
    /\ Running("risk")
    /\ \E positions \in HeldListSet :
          call' = [call EXCEPT
                     !.risk = check_pre_trade(call.equity, call.symbol, call.setup.entry,
                                              call.sizing.position_value,
                                              call.sizing.risk_dollars, positions,
                                              NoLiquidityCheck),
                     !.log = Append(@, "risk"),
                     !.pc = "plan"]
    /\ UNCHANGED sim_vars

\* positions = broker.get_positions(); check_pre_trade without liquidity
\* information; a rejection returns
RiskGate ==
    /\ Running("risk")
    /\ \E positions \in HeldListSet :
          LET risk == check_pre_trade(call.equity, call.symbol, call.setup.entry,
                                      call.sizing.position_value,
                                      call.sizing.risk_dollars, positions,
                                      NoLiquidityCheck)
          IN  call' = [call EXCEPT !.risk = risk,
                                   !.log = Append(@, "risk"),
                                   !.pc = IF risk.approved THEN "plan" ELSE "returned"]
    /\ UNCHANGED sim_vars

DryRunReturn ==
    /\ Running("plan")
    /\ call.dry_run
    /\ call' = [call EXCEPT !.pc = "returned"]
    /\ UNCHANGED sim_vars

\* order = broker.place_order(symbol, 'buy', shares, 'limit', entry, 'day')
PlaceOrder ==
    /\ Running("plan")
    /\ ~call.dry_run
    /\ \E api_ok \in BOOLEAN :
          LET placed == place_order("buy", call.sizing.shares, "limit", TRUE, FALSE, api_ok)
          IN  call' = [call EXCEPT !.order = placed.order,
                                   !.log = IF placed.submitted
                                           THEN Append(@, "submit") ELSE @,
                                   !.pc = "journal"]
    /\ UNCHANGED sim_vars

\* log_signal('executed') and log_entry for an order, log_signal('rejected')
\* for none
WriteJournal ==
    /\ Running("journal")
    /\ call' = [call EXCEPT
                  !.journal =
                      IF call.order # NoOrder
                      THEN <<[kind |-> "signal", action_taken |-> "executed"],
                             [kind |-> "entry", action_taken |-> "executed"]>>
                      ELSE <<[kind |-> "signal", action_taken |-> "rejected"]>>,
                  !.pc = "returned"]
    /\ UNCHANGED sim_vars

NextRunner ==
    \/ ConstructBroker
    \/ GetAccount
    \/ PickStrategy
    \/ FetchData
    \/ Scan
    \/ SizePosition
    \/ RiskGate
    \/ DryRunReturn
    \/ PlaceOrder
    \/ WriteJournal

SpecRunner == InitRunner /\ [][NextRunner]_vars

(* ---------------------------------------------------------------------- *)
(* generate_signals of the two strategies: entry, stop and target of one   *)
(* signal row.  Inputs are whole dollars, results hundredths of a dollar   *)
(* ---------------------------------------------------------------------- *)
\* config.MOMENTUM_TARGET_R
MomentumTargetR == 2
\* config.PULLBACK_TARGET_R
PullbackTargetR == 2
\* stop = entry * 0.97 = entry * EmergencyStopPct / PctDen
EmergencyStopPct == 97

\* Python's max(a, b) of two floats that may be NaN: b when b > a, else a
PyMax(a, b) == IF ~isna(a) /\ ~isna(b) /\ b > a THEN b ELSE a

\* variant: the emergency stop applies only to a stop strictly above the entry
SignalLevelsOnlyAbove(target_r, close, level, atr) ==
    LET entry == close
        stop == IF isna(atr) THEN PyMax(level, NaN)
                ELSE IF level >= entry - atr * AtrStopMult THEN level
                ELSE entry - atr * AtrStopMult
        stop100 == IF stop > entry THEN entry * EmergencyStopPct ELSE stop * PctDen
        risk100 == entry * PctDen - stop100
    IN  [entry |-> entry * PctDen, stop |-> stop100,
         target |-> entry * PctDen + risk100 * target_r,
         emergency |-> stop > entry]

\* entry = close; stop = max(level, entry - atr * mult), level being the
\* high of the prior lookback bars (Momentum) or the low of the last five
\* bars (Pullback); a stop at or above the entry becomes entry * 0.97;
\* target = entry + risk * target_r
SignalLevels(target_r, close, level, atr) ==
    LET entry == close
        stop == IF isna(atr) THEN PyMax(level, NaN)
                ELSE IF level >= entry - atr * AtrStopMult THEN level
                ELSE entry - atr * AtrStopMult
        stop100 == IF stop >= entry THEN entry * EmergencyStopPct ELSE stop * PctDen
        risk100 == entry * PctDen - stop100
    IN  [entry |-> entry * PctDen, stop |-> stop100,
         target |-> entry * PctDen + risk100 * target_r,
         emergency |-> stop >= entry]

TargetR(name) == IF name = "momentum" THEN MomentumTargetR ELSE PullbackTargetR

SignalCloseSet == {10, 50, 100}
SignalLevelSet == {8, 9, 10, 12, 49, 95, 100}
SignalAtrSet == {NaN, 0, 1, 3}

\* a Momentum signal needs close > high_20.shift(1), which is the high of
\* the prior lookback bars; the Pullback low is not tied to the close
InitSignals ==
    /\ SimulatorIdle
    /\ call \in [op : {"generate_signals"}, strategy_name : {"momentum", "pullback"},
                 close : SignalCloseSet, level : SignalLevelSet, atr : SignalAtrSet,
                 result : {NoResult}]
    /\ call.strategy_name = "momentum" => call.level < call.close

GenerateSignals ==
    /\ call.op = "generate_signals"
    /\ call.result = NoResult
    /\ call' = [call EXCEPT !.result =
                    SignalLevels(TargetR(call.strategy_name), call.close,
                                 call.level, call.atr)]
    /\ UNCHANGED sim_vars

NextSignals == GenerateSignals

SpecSignals == InitSignals /\ [][NextSignals]_vars

(* ====================================================================== *)
(* Properties                                                              *)
(* ====================================================================== *)
LastRow == trades[Len(trades)]
LastHistory == history[Len(history)]

\* initial capital plus the net P&L of the ledger rows 1..n that satisfy P
RECURSIVE NetPnlUpTo(_, _)
NetPnlUpTo(t, n) == IF n = 0 THEN 0 ELSE NetPnlUpTo(t, n - 1) + t[n].net_pnl

RECURSIVE NetPnlClosedBy(_, _, _)
NetPnlClosedBy(t, n, date) ==
    IF n = 0 THEN 0
    ELSE NetPnlClosedBy(t, n - 1, date)
         + (IF t[n].exit_date <= date THEN t[n].net_pnl ELSE 0)

\* C1: single concurrent position - no two trades of the ledger overlap in
\* time: each trade is entered at or after the exit of every trade entered
\* before it.
C1_NoOverlap ==
    \A i, j \in 1..Len(trades) :
        i < j => trades[j].entry_date >= trades[i].exit_date

\* C2: no look-ahead in sizing - the equity handed to the position sizer for
\* a trade is initial capital plus the net P&L of exactly the trades that
\* were closed at or before that trade's entry.
C2_SizedWithClosedTradesOnly ==
    \A j \in 1..Len(trades) :
        history[j].sized_equity =
            initial_capital + NetPnlClosedBy(trades, Len(trades), trades[j].entry_date)

\* C3: target-before-stop priority - a row after the entry whose high reaches
\* the target closes the trade on that row at target_price with reason
\* 'target', also when its low reaches the stop in force; a 'stop' exit is made
\* only on a row whose high is below the target.
C3_TargetBeforeStop ==
    [][ /\ (AtBar /\ Scaled(df[cur].high) >= open.target_price)
            => /\ Len(trades') = Len(trades) + 1
               /\ trades'[Len(trades')].exit_reason = "target"
               /\ trades'[Len(trades')].exit_date = cur
               /\ history'[Len(history')].raw_exit = open.target_price
        /\ (AtBar /\ Len(trades') = Len(trades) + 1
                  /\ trades'[Len(trades')].exit_reason = "stop")
            => Scaled(df[cur].high) < open.target_price ]_vars

\* a trade was closed at its target on a row whose low also reached the stop
C3_Witness ==
    /\ last = "exit_target"
    /\ Scaled(df[LastRow.exit_date].low)
         <= LastHistory.examined[Len(LastHistory.examined)].stop

\* what the built-in exit policy answers on a row of the series
BuiltInExit(t, row) ==
    IF strategy = "momentum"
    THEN MomentumCheckExit(t.entry_price, Scaled(df[row].close),
                           CurrentAtr(df[row]), t.stop_price).should_exit
    ELSE IF strategy = "pullback"
    THEN PullbackCheckExit(t.entry_price, Scaled(df[row].close),
                           CurrentAtr(df[row]), t.stop_price).should_exit
    ELSE FALSE

\* the rows seen are the rows after the entry row, in order, and none of them
\* but the last met a target, stop or exit-policy condition
RowsAfterEntry(entry_idx, target_price, seen, closed) ==
    \A n \in 1..Len(seen) :
        /\ seen[n].row = entry_idx + n
        /\ (closed /\ n = Len(seen))
           \/ /\ Scaled(df[seen[n].row].high) < target_price
              /\ Scaled(df[seen[n].row].low) > seen[n].stop
              /\ ~seen[n].should_exit

\* C4: exit resolution starts strictly after the entry row and takes the
\* first qualifying row - every ledger trade exits after its entry, the entry
\* row is never tested, and no row between entry and exit met a target, stop
\* or exit-policy condition.
C4_FirstExitAfterEntry ==
    /\ \A j \in 1..Len(trades) :
          /\ trades[j].exit_date > trades[j].entry_date
          /\ Len(history[j].examined) = trades[j].exit_date - trades[j].entry_date
          /\ RowsAfterEntry(trades[j].entry_date, trades[j].target_price,
                            history[j].examined, TRUE)
          /\ \A n \in 1..(Len(history[j].examined) - 1) :
                ~BuiltInExit(trades[j], history[j].examined[n].row)
    /\ pc = "find_exit" =>
          /\ cur = open.entry_idx + Len(examined) + 1
          /\ RowsAfterEntry(open.entry_idx, open.target_price, examined, FALSE)

\* a trade was closed two rows after its entry
C4_Witness ==
    /\ trades # <<>>
    /\ LastRow.exit_date = LastRow.entry_date + 2

\* C5: a trade whose exit never resolves before the series ends is dropped
\* without trace - the ledger and everything derived from it stay as they
\* were, running equity is the equity the dropped trade was sized with, and
\* the loop moves on to the next signal.
C5_DroppedWithoutTrace ==
    [][ (pc = "find_exit" /\ cur > Len(df))
          => /\ trades' = trades
             /\ history' = history
             /\ equity' = equity
             /\ equity' = open.sized_equity
             /\ equity_curve' = equity_curve
             /\ pc' = "loop"
             /\ k' = k + 1
             /\ open' = NoTrade ]_vars

\* a trade was just dropped and signals follow it
C5_Witness == last = "drop" /\ k <= Len(signals)

NonDecreasing(seen) ==
    \A m, n \in 1..Len(seen) : m <= n => seen[m].stop <= seen[n].stop

\* C6: monotonic stop - over the life of a trade the stops tested row by row
\* never decrease and are never below the signal's original stop, whatever
\* the exit policy returns.
C6_MonotonicStop ==
    /\ \A j \in 1..Len(trades) :
          /\ NonDecreasing(history[j].examined)
          /\ \A n \in 1..Len(history[j].examined) :
                history[j].examined[n].stop >= Scaled(df[trades[j].entry_date].stop)
    /\ pc = "find_exit" =>
          /\ NonDecreasing(examined)
          /\ \A n \in 1..Len(examined) :
                /\ examined[n].stop >= Scaled(df[open.entry_idx].stop)
                /\ examined[n].stop <= current_stop
          /\ current_stop >= Scaled(df[open.entry_idx].stop)

\* an arbitrary policy returned a new_stop below the stop in force (the only
\* value of CustomStopSet that leaves the stop where it was)
C6_Witness ==
    /\ last = "hold_policy"
    /\ strategy = "custom"
    /\ current_stop = open.stop_price
    /\ \E x \in CustomStopSet : Scaled(x) < current_stop

\* C7 (as claimed): the filled entry price is strictly greater than the stop
\* in force on every row of the trade's life, trailing and breakeven updates
\* included (stated for the exit policies the repository ships).
C7_EntryAboveEveryStop ==
  strategy \in {"momentum", "pullback"} =>
    /\ \A j \in 1..Len(trades) :
          /\ trades[j].entry_price > trades[j].stop_price
          /\ \A n \in 1..Len(history[j].examined) :
                trades[j].entry_price > history[j].examined[n].stop
    /\ pc = "find_exit" => open.entry_price > current_stop

\* C7 (amended): the filled entry price is strictly greater than the stop the
\* ledger records, which is the signal's original stop and the stop tested on
\* the first row after the entry.
C7_EntryAboveRecordedStop ==
    /\ \A j \in 1..Len(trades) :
          /\ trades[j].entry_price > trades[j].stop_price
          /\ trades[j].stop_price = Scaled(df[trades[j].entry_date].stop)
          /\ history[j].examined[1].stop = trades[j].stop_price
    /\ pc = "find_exit" => open.entry_price > open.stop_price

\* a ledger trade whose stop had trailed to or above the filled entry
C7_Witness ==
    /\ trades # <<>>
    /\ \E n \in 1..Len(LastHistory.examined) :
          LastHistory.examined[n].stop >= LastRow.entry_price

\* C8: trade accounting - gross_pnl = shares * (exit fill - entry fill), the
\* recorded commission is twice the configured per-trade commission,
\* net_pnl = gross_pnl - commission, and shares >= 1.
C8_TradeAccounting ==
    \A j \in 1..Len(trades) :
        /\ trades[j].gross_pnl
             = trades[j].shares * (trades[j].exit_price - trades[j].entry_price)
        /\ trades[j].exit_price
             * SlipDen = history[j].raw_exit * (SlipDen - slippage)
        /\ trades[j].commission = 2 * commission
        /\ trades[j].net_pnl = trades[j].gross_pnl - trades[j].commission
        /\ trades[j].shares >= 1

\* a trade was closed under a non-zero commission and non-zero slippage
C8_Witness == trades # <<>> /\ commission > 0 /\ slippage > 0

\* C9: equity-curve structure - n + 1 points for n trades, the first is
\* initial capital, the k-th after it is initial capital plus the net P&L of
\* the first k trades and carries the k-th trade's exit timestamp.
C9_EquityCurveStructure ==
    /\ Len(EquityPoints(<<>>)) = 1
    /\ EquityPoints(<<>>)[1].equity = initial_capital
    /\ result = "report" =>
          /\ Len(equity_curve) = Len(trades) + 1
          /\ equity_curve[1].equity = initial_capital
          /\ \A n \in 1..Len(trades) :
                /\ equity_curve[n + 1].equity
                     = initial_capital + NetPnlUpTo(trades, n)
                /\ equity_curve[n + 1].date = trades[n].exit_date
          /\ equity_curve[Len(equity_curve)].equity
                = initial_capital + NetPnlUpTo(trades, Len(trades))

\* a report over two trades with non-zero P&L
C9_Witness ==
    /\ result = "report"
    /\ Len(trades) >= 2
    /\ \A n \in 1..Len(trades) : trades[n].net_pnl # 0

\* C10: the equity curve is strictly time-ordered - the timestamps of
\* consecutive points are strictly increasing.
C10_CurveStrictlyOrdered ==
    result = "report" =>
        \A n \in 1..(Len(equity_curve) - 1) :
            equity_curve[n].date < equity_curve[n + 1].date

\* a signal row the loop passes over: missing field, or stop not below entry
BadSignalRow(row) == SignalIsNa(row) \/ row.stop >= row.entry

\* C11: bad signals are skipped locally - a signal with a missing entry, stop
\* or target, or one the sizer rejects, appends nothing to the ledger, leaves
\* running equity unchanged, produces no result (no error) and lets the loop
\* go on with the next signal.
C11_BadSignalSkipped ==
    [][ (AtSignal /\ (SignalIsNa(df[idx]) \/ ~Sizing(df[idx]).valid))
          => /\ trades' = trades
             /\ history' = history
             /\ equity' = equity
             /\ result' = result
             /\ pc' = "loop"
             /\ k' = k + 1 ]_vars

\* a trade was opened on a signal that follows a bad signal
C11_Witness ==
    /\ pc = "find_exit"
    /\ \E n \in 1..(k - 1) : BadSignalRow(df[signals[n]])

\* C12: configuration errors fail the whole run - with a negative commission,
\* a negative slippage_pct or a non-positive initial capital the run ends in
\* an error outcome and produces no ledger, equity curve or report.
C12_BadConfigFailsRun ==
    BadConfig =>
        /\ trades = <<>>
        /\ equity_curve = <<>>
        /\ result # "report"
        /\ pc # "find_exit"

\* what run() returns when it fails for lack of data (line 149: None)
FailureResults == {"none"}

\* C13: a run that closes zero trades ends in an outcome a caller can tell
\* apart from that of a failed run: the two never yield the same result value.
C13_ZeroTradesDistinctFromFailure ==
    last = "finish_none" => result \notin FailureResults

ExitSeen(j) == history[j].examined[Len(history[j].examined)]

RawExit(j) ==
    IF ExitSeen(j).should_exit THEN Scaled(df[trades[j].exit_date].close)
    ELSE IF trades[j].exit_reason = "target" THEN trades[j].target_price
    ELSE ExitSeen(j).stop

\* C16: slippage always works against the trader - the filled entry is
\* signal entry * (1 + slippage_pct) >= signal entry and the filled exit is
\* raw exit * (1 - slippage_pct) <= raw exit, the raw exit being the target,
\* the stop in force or the row's close by kind of exit.
C16_SlippageAgainstTrader ==
    slippage >= 0 =>
        \A j \in 1..Len(trades) :
            LET signal_entry == Scaled(df[trades[j].entry_date].entry)
            IN  /\ trades[j].entry_price * SlipDen
                     = signal_entry * (SlipDen + slippage)
                /\ trades[j].entry_price >= signal_entry
                /\ trades[j].exit_price * SlipDen
                     = RawExit(j) * (SlipDen - slippage)
                /\ trades[j].exit_price <= RawExit(j)

\* trades of each kind of exit were filled under non-zero slippage
C16_Witness ==
    /\ slippage > 0
    /\ trades # <<>>
    /\ LastRow.entry_price > Scaled(df[LastRow.entry_date].entry)
    /\ LastRow.exit_price < RawExit(Len(trades))
    /\ ExitSeen(Len(trades)).should_exit

\* calculate_shares has returned
Sized == call.op = "calculate_shares" /\ call.result # NoResult

\* C17: the sizer's validation is ordered and short-circuits - entry_price
\* > 0, stop_price > 0, entry_price > stop_price, equity > 0; the reason is
\* that of the first failing check and every such result has valid = False
\* and shares = 0.
C17_ValidationOrder ==
    Sized =>
        LET e == call.entry_price
            st == call.stop_price
            q == call.equity
            r == call.result
        IN  /\ e <= 0 => r.reason = "Entry price must be positive"
            /\ (e > 0 /\ st <= 0) => r.reason = "Stop price must be positive"
            /\ (e > 0 /\ st > 0 /\ e <= st)
                  => r.reason = "Stop price must be below entry price (long only)"
            /\ (e > 0 /\ st > 0 /\ e > st /\ q <= 0)
                  => r.reason = "Equity must be positive"
            /\ (e <= 0 \/ st <= 0 \/ e <= st \/ q <= 0)
                  => (~r.valid /\ r.shares = 0)

\* a call that fails two checks at once: stop not below entry and equity <= 0
C17_Witness ==
    /\ Sized
    /\ call.entry_price > 0
    /\ call.stop_price >= call.entry_price
    /\ call.equity <= 0
    /\ call.result.reason = "Stop price must be below entry price (long only)"

\* the largest share count whose risk and whose position value are within
\* their caps: min(floor(q * max_risk_pct / (e - st)), floor(q * max_position_pct / e))
WithinCaps(m, q, e, st) ==
    /\ m * (e - st) * PctDen <= q * MaxRiskPct
    /\ m * e * PctDen <= q * MaxPositionPct

ExpectedShares(q, e, st) ==
    CHOOSE m \in 0..q : WithinCaps(m, q, e, st) /\ ~WithinCaps(m + 1, q, e, st)

\* C18: for inputs passing validation, shares is the minimum of the two
\* floors; below 1 the result is invalid with the rounds-to-zero reason,
\* otherwise position_value = shares * entry and risk_dollars = shares *
\* (entry - stop); 25000 / 150 / 145 gives 50 shares, 25000 / 1000 / 995 gives 7.
C18_ShareCount ==
    (Sized /\ call.entry_price > 0 /\ call.stop_price > 0
           /\ call.entry_price > call.stop_price /\ call.equity > 0) =>
        LET e == call.entry_price
            st == call.stop_price
            q == call.equity
            r == call.result
            m == ExpectedShares(q, e, st)
        IN  /\ IF m < 1
               THEN /\ ~r.valid
                    /\ r.shares = 0
                    /\ r.reason = "Position size rounds to 0 shares"
               ELSE /\ r.valid
                    /\ r.shares = m
                    /\ r.position_value = m * e
                    /\ r.risk_dollars = m * (e - st)
            /\ (q = 25000 /\ e = 150 /\ st = 145) => r.shares = 50
            /\ (q = 25000 /\ e = 1000 /\ st = 995) => r.shares = 7

\* a valid sizing in which the position cap binds and the risk cap does not
C18_Witness ==
    /\ Sized
    /\ call.result.valid
    /\ (call.result.shares + 1) * call.entry_price * PctDen
         > call.equity * MaxPositionPct
    /\ (call.result.shares + 1) * (call.entry_price - call.stop_price) * PctDen
         <= call.equity * MaxRiskPct

\* C19: for every valid result shares >= 1 and neither the position value nor
\* the risk, as a share of equity, is above its cap - the amounts reported and
\* the amounts the share count stands for alike.
C19_WithinCaps ==
    (Sized /\ call.result.valid) =>
        LET r == call.result
            q == call.equity
        IN  /\ r.shares >= 1
            /\ r.position_value * PctDen <= MaxPositionPct * q
            /\ r.risk_dollars * PctDen <= MaxRiskPct * q
            /\ r.shares * call.entry_price * PctDen <= MaxPositionPct * q
            /\ r.shares * (call.entry_price - call.stop_price) * PctDen
                 <= MaxRiskPct * q

\* a valid sizing that sits exactly on the position cap
C19_Witness ==
    /\ Sized
    /\ call.result.valid
    /\ call.result.position_value * PctDen = MaxPositionPct * call.equity

\* check_pre_trade has returned
Checked == call.op = "check_pre_trade" /\ call.result # NoResult

\* the checks in the order they run
CheckOrder ==
    <<"max_positions", "position_size", "risk", "min_price", "liquidity",
      "leverage", "duplicate">>

PlaceOf(tag) == CHOOSE n \in 1..Len(CheckOrder) : CheckOrder[n] = tag

\* whether the arguments of the call fail the named check; liquidity
\* information that does not carry a volume counts as volume 0
Fails(tag) ==
    LET held == { call.current_positions[n].symbol :
                    n \in 1..Len(call.current_positions) }
        exposure == TotalMarketValue(call.current_positions,
                                     Len(call.current_positions))
                    + call.position_value
        volume == IF "avg_dollar_volume" \in DOMAIN call.liquidity_check
                  THEN call.liquidity_check.avg_dollar_volume ELSE 0
    IN  CASE tag = "max_positions" ->
               Cardinality(held) >= MaxPositions /\ call.symbol \notin held
          [] tag = "position_size" ->
               call.position_value * PctDen > MaxPositionPct * call.equity
          [] tag = "risk" -> call.risk_dollars * PctDen > MaxRiskPct * call.equity
          [] tag = "min_price" -> call.entry_price < MinStockPrice
          [] tag = "liquidity" ->
               /\ call.liquidity_check \notin {NoLiquidityCheck, EmptyDict}
               /\ volume < MinAvgDollarVolume
          [] tag = "leverage" -> exposure * PctDen > call.equity * LeverageMarginPct
          [] tag = "duplicate" -> call.symbol \in held

\* C20: check_pre_trade never short-circuits - the reasons of a rejection
\* hold one entry for each failing check and none for a passing one, in the
\* order position-count, position-size, risk, minimum price, liquidity,
\* leverage/exposure, duplicate symbol.
C20_AllFailuresInOrder ==
    (Checked /\ ~call.result.approved) =>
        LET reasons == call.result.reasons
        IN  /\ \A n \in 1..Len(reasons) :
                  reasons[n] \in { CheckOrder[m] : m \in 1..Len(CheckOrder) }
            /\ \A n \in 1..Len(CheckOrder) :
                  Fails(CheckOrder[n])
                    <=> \E m \in 1..Len(reasons) : reasons[m] = CheckOrder[n]
            /\ \A m, n \in 1..Len(reasons) :
                  m < n => PlaceOf(reasons[m]) < PlaceOf(reasons[n])

\* a call like that of test_multiple_violations: at least five checks fail at once
C20_Witness ==
    /\ Checked
    /\ Len(call.result.reasons) >= 5
    /\ call.symbol = "PENNY"

Affirmative == "All risk checks passed"

InReasons(tag) ==
    \E n \in 1..Len(call.result.reasons) : call.result.reasons[n] = tag

\* position value and risk are exactly max_position_pct and max_risk_pct of equity
OnLimits ==
    /\ call.position_value * PctDen = MaxPositionPct * call.equity
    /\ call.risk_dollars * PctDen = MaxRiskPct * call.equity

\* C21: approved holds exactly when no check failed; an approval carries the
\* one affirmative message and nothing else, a rejection carries at least one
\* reason and never the affirmative message; a trade exactly on the
\* position-size and risk limits that fails no other check is approved.
C21_ApprovedIffNoFailure ==
    Checked =>
        /\ call.result.approved
             <=> \A n \in 1..Len(CheckOrder) : ~Fails(CheckOrder[n])
        /\ call.result.approved => call.result.reasons = <<Affirmative>>
        /\ ~call.result.approved =>
             call.result.reasons # <<>> /\ ~InReasons(Affirmative)
        /\ OnLimits => ~InReasons("position_size") /\ ~InReasons("risk")

\* a trade exactly on both limits was approved
C21_Witness ==
    /\ Checked
    /\ OnLimits
    /\ call.result.approved
    /\ call.result.reasons = <<Affirmative>>

\* the symbols of the open positions
HeldSymbols ==
    { call.current_positions[n].symbol : n \in 1..Len(call.current_positions) }

\* C22: whenever the proposed symbol is already among the open positions the
\* call is rejected with the duplicate-position reason, whatever the other
\* arguments are, also when the position-count exemption applies.
C22_DuplicateRejected ==
    (Checked /\ call.symbol \in HeldSymbols) =>
        ~call.result.approved /\ InReasons("duplicate")

\* the position count is at its cap, the symbol is held (so the count check
\* is waived) and the duplicate check is the only one that rejects
C22_Witness ==
    /\ Checked
    /\ call.symbol \in HeldSymbols
    /\ Len(call.current_positions) >= MaxPositions
    /\ call.result.reasons = <<"duplicate">>

\* C23: a max-positions reason is produced exactly when the number of open
\* positions is at least max_positions and the proposed symbol is not among
\* them.
C23_MaxPositionsWithExemption ==
    Checked =>
        (InReasons("max_positions")
            <=> (Len(call.current_positions) >= MaxPositions
                 /\ call.symbol \notin HeldSymbols))

\* a new symbol proposed with the position count at its cap is rejected for
\* the count alone
C23_Witness ==
    /\ Checked
    /\ Len(call.current_positions) = MaxPositions
    /\ call.symbol \notin HeldSymbols
    /\ call.result.reasons = <<"max_positions">>

\* Broker(paper, cli_confirm) has been constructed or has raised
BrokerBuilt == call.op = "execute_trade" /\ call.broker # NoResult

\* C24: Broker(paper = False) raises LiveTradingError, before a trading client
\* exists, unless ALLOW_LIVE_TRADING and cli_confirm are both true; with the
\* environment flag missing the error names ALLOW_LIVE_TRADING, whatever
\* cli_confirm is; Broker(paper = True) never raises it.
C24_DoubleConfirmation ==
    BrokerBuilt =>
        /\ call.broker.raised
             <=> (~call.paper /\ ~(call.allow_live_trading /\ call.cli_confirm))
        /\ call.broker.raised => ~call.broker.client
        /\ (call.broker.raised /\ ~call.allow_live_trading)
             => call.broker.error = "ALLOW_LIVE_TRADING"
        /\ call.paper => (~call.broker.raised /\ call.broker.client)

\* live trading asked for with both confirmations missing
C24_Witness ==
    /\ BrokerBuilt
    /\ ~call.paper /\ ~call.allow_live_trading /\ ~call.cli_confirm
    /\ call.broker.raised
    /\ call.broker.error = "ALLOW_LIVE_TRADING"
    /\ call.pc = "returned"

InLog(step) == \E n \in 1..Len(call.log) : call.log[n] = step

\* the steps that come before an order, in the order execute_trade takes them
GateOrder == <<"broker", "account", "strategy", "data", "scan", "size", "risk", "submit">>

HasEntryRecord == \E n \in 1..Len(call.journal) : call.journal[n].kind = "entry"

\* C28: in execute_trade an order is submitted only after the broker was
\* constructed without LiveTradingError, the account equity was positive,
\* the strategy returned a setup, the sizer returned valid and the risk
\* manager returned approved, in this order, and only when dry_run is false;
\* an entry record is journalled only after an order was placed, and a
\* failed placement journals one 'rejected' signal record and no entry.
C28_RiskGateBeforeOrder ==
    call.op = "execute_trade" =>
        /\ InLog("submit") =>
            /\ call.log = GateOrder
            /\ ~call.broker.raised /\ call.broker.client
            /\ call.equity > 0
            /\ call.strategy_name \in {"momentum", "pullback"}
            /\ call.setup # NoSetup
            /\ call.sizing.valid
            /\ call.risk.approved
            /\ ~call.dry_run
        /\ call.order # NoOrder => InLog("submit")
        /\ HasEntryRecord => (InLog("submit") /\ call.order # NoOrder)
        /\ (call.pc = "returned" /\ InLog("submit") /\ call.order = NoOrder)
             => call.journal = <<[kind |-> "signal", action_taken |-> "rejected"]>>
        /\ (call.pc = "returned" /\ call.order # NoOrder) => HasEntryRecord

\* an order went through the whole gate and was journalled
C28_Witness ==
    /\ call.op = "execute_trade"
    /\ call.pc = "returned"
    /\ InLog("submit")
    /\ call.risk.approved
    /\ call.order # NoOrder
    /\ HasEntryRecord

\* run has returned a report
Reported == result = "report" /\ call.op = "_calculate_metrics"

CurveNonNegative ==
    /\ equity_curve[1].equity > 0
    /\ \A n \in 1..Len(equity_curve) : equity_curve[n].equity >= 0

NeverBelowRunningMax ==
    \A n \in 1..Len(equity_curve) : drawdown(equity_curve, n) = 0

\* C25: for an equity curve whose values are all non-negative and whose
\* first value is positive, max_drawdown >= 0 and max_drawdown_pct is a
\* number in [0, 1]; it is 0 when the curve never falls below its running
\* maximum.
C25_DrawdownRange ==
    (Reported /\ CurveNonNegative) =>
        /\ call.max_drawdown >= 0
        /\ call.max_drawdown_pct.scalar
        /\ \A i \in 1..Len(call.max_drawdown_pct.values) :
              LET r == call.max_drawdown_pct.values[i]
              IN  r.den > 0 /\ 0 <= r.num /\ r.num <= r.den
        /\ NeverBelowRunningMax => call.max_drawdown_pct.values = << Zero >>

\* the first position of the curve where the drawdown is the maximum one
FirstMaxDrawdownAt ==
    CHOOSE n \in 1..Len(equity_curve) :
        /\ drawdown(equity_curve, n) = call.max_drawdown
        /\ \A m \in 1..(n - 1) : drawdown(equity_curve, m) # call.max_drawdown

\* C26: max_drawdown is the largest difference between the running maximum
\* and the equity over the points of the curve, and max_drawdown_pct is
\* max_drawdown divided by the running maximum at the first point where that
\* drawdown is attained.
C26_DrawdownDefinition ==
    Reported =>
        /\ \A n \in 1..Len(equity_curve) :
              drawdown(equity_curve, n) <= call.max_drawdown
        /\ \E n \in 1..Len(equity_curve) :
              drawdown(equity_curve, n) = call.max_drawdown
        /\ call.max_drawdown > 0 =>
              /\ call.max_drawdown_pct.scalar
              /\ call.max_drawdown_pct.values =
                    << Ratio(call.max_drawdown,
                             cummax(equity_curve, FirstMaxDrawdownAt)) >>

\* run has gone through a series that has rows and has returned
Analysed == pc = "done" /\ last \in {"finish_none", "finish_report"}

NoLosingTrade == \A n \in 1..Len(trades) : trades[n].net_pnl >= 0

\* C27: analysing a ledger gives win_rate = winners / total and 0 for an
\* empty ledger, profit_factor = gross profit / |gross loss| and infinity
\* when no trade has a negative net_pnl, and CAGR and exposure 0 when
\* end_date - start_date is zero or negative days.
C27_DegenerateSentinels ==
    Analysed =>
        /\ call.op = "_calculate_metrics"
        /\ call.win_rate =
              (IF trades = <<>> THEN Zero
               ELSE Ratio(CountPnl(trades, 1, Len(trades)), Len(trades)))
        /\ call.profit_factor =
              (IF NoLosingTrade THEN Infinity
               ELSE Ratio(SumPnl(trades, 1, Len(trades)),
                          abs(SumPnl(trades, 0 - 1, Len(trades)))))
        /\ call.total_days <= 0 =>
              (~call.cagr.power /\ call.cagr.base = Zero /\ call.avg_exposure = Zero)

\* twice the R-multiple at which the strategy's trailing stop starts
TrailR2 == IF strategy = "momentum" THEN MomentumTrailR2 ELSE PullbackTrailR2

\* the close of the row is at least trail R above the entry fill of trade j
TrailActive(j, row) ==
    2 * (Scaled(df[row].close) - trades[j].entry_price)
        >= TrailR2 * (trades[j].entry_price - trades[j].stop_price)

PositiveAtr(row) == ~isna(df[row].atr_14) /\ df[row].atr_14 > 0

\* C29: with the Momentum and Pullback exit policies no trade is closed by
\* the policy on a bar with positive ATR - every policy exit of the ledger
\* is on a bar whose ATR is zero or missing and whose close is at least the
\* trailing-activation R-multiple above the entry fill.
C29_NoPolicyExitOnPositiveAtr ==
    strategy \in {"momentum", "pullback"} =>
        \A j \in 1..Len(trades) :
            \A n \in 1..Len(history[j].examined) :
                history[j].examined[n].should_exit =>
                    /\ ~PositiveAtr(history[j].examined[n].row)
                    /\ TrailActive(j, history[j].examined[n].row)
                    /\ n = Len(history[j].examined)

\* a trade held through a bar with positive ATR although its trailing stop
\* was active there, and was closed by the policy on a bar without ATR
C29_Witness ==
    /\ strategy \in {"momentum", "pullback"}
    /\ last = "exit_policy"
    /\ LET j == Len(trades)
           seen == history[j].examined
       IN  /\ seen[Len(seen)].should_exit
           /\ isna(df[seen[Len(seen)].row].atr_14)
           /\ \E n \in 1..(Len(seen) - 1) :
                 /\ PositiveAtr(seen[n].row)
                 /\ TrailActive(j, seen[n].row)
                 /\ Scaled(df[seen[n].row].high) < trades[j].target_price
                 /\ Scaled(df[seen[n].row].low) > seen[n].stop

\* generate_signals has filled the row
Generated == call.op = "generate_signals" /\ call.result # NoResult

\* the stop generate_signals computes before the emergency rule, in
\* hundredths of a dollar
ComputedStop100 ==
    IF isna(call.atr) \/ call.level >= call.close - call.atr * AtrStopMult
    THEN call.level * PctDen
    ELSE (call.close - call.atr * AtrStopMult) * PctDen

\* C30: every signal of the two generate_signals on a bar with a positive
\* close has stop < entry < target and target - entry = target_r * (entry -
\* stop); a computed stop at or above the entry is replaced by 97% of the
\* entry, so the sizer's stop-below-entry check never rejects the signal.
C30_SignalLevelsOrdered ==
    (Generated /\ call.close > 0) =>
        /\ call.result.entry = call.close * PctDen
        /\ call.result.stop < call.result.entry
        /\ call.result.entry < call.result.target
        /\ call.result.target - call.result.entry
             = TargetR(call.strategy_name) * (call.result.entry - call.result.stop)
        /\ call.result.stop =
             (IF ComputedStop100 >= call.close * PctDen
              THEN call.close * EmergencyStopPct ELSE ComputedStop100)
        /\ calculate_shares(25000 * PctDen, call.result.entry, call.result.stop).reason
             # "Stop price must be below entry price (long only)"

\* the computed stop equals the entry (ATR 0 and a lower level) and was
\* replaced by 97% of the entry
C30_Witness ==
    /\ Generated
    /\ ComputedStop100 = call.close * PctDen
    /\ call.result.stop = call.close * EmergencyStopPct
    /\ call.result.stop < call.result.entry

====
